---- MODULE Spec2Model ----
(***************************************************************************)
(* A model of hackmd-search (src/src/main.rs): one invocation of `main`,   *)
(* from parsed arguments to exit.  Build mode authenticates, lists the     *)
(* team's pages, downloads them through `buffered(CONCURRENT_REQUESTS)`,   *)
(* and dumps the collection to the JSON database; load mode reads the      *)
(* database back.  Either mode may then publish to Meilisearch.            *)
(***************************************************************************)
EXTENDS Integers, Sequences, FiniteSets, TLC

VARIABLES
    args,       \* Args: [team, database, update, meilisearch]
    file,       \* what is stored at the database path
    file0,      \* what was stored there when the run began (history)
    pc,         \* position of main / build_database / to_meilisearch
    err,        \* the error main returned (or the panic), "none" while running
    mode,       \* "none", "build" or "load": the branch taken at main.rs:182
    attempts,   \* attempts the retry middleware has made for the current request
    resp,       \* outcome of the latest attempt of the current request
    net,        \* kinds of request issued so far (history)
    prompts,    \* credential prompts shown so far (history)
    fileOps,    \* operations performed on the database file (history)
    listing,    \* the JSON array the listing endpoint answered with (history)
    page_list,  \* Vec<Page>
    nextIdx,    \* entries of page_list the stream has handed to `buffered`
    queue,      \* the FuturesOrdered of `buffered`: pulled, not yet yielded
    bodies      \* the results collected from the stream, in yield order

vars == <<args, file, file0, pc, err, mode, attempts, resp, net, prompts, fileOps,
          listing, page_list, nextIdx, queue, bodies>>

-----------------------------------------------------------------------------
(* Bounds of the model and constants of the program.                       *)

\* Largest listing the service answers with.
MaxPages == 6

\* Distinct document ids the service hands out; longer listings repeat ids.
NumIds == 3

\* Largest listing whose entries carry a "content" key of their own.
MaxContentPages == 2

\* const CONCURRENT_REQUESTS: usize = 5;
CONCURRENT_REQUESTS == 5

\* build_with_max_retries(3)
MaxRetries == 3

-----------------------------------------------------------------------------
(* Values.                                                                 *)

None == [some |-> FALSE]
Some(x) == [some |-> TRUE, val |-> x]

\* JSON values as serde_json produces and reads them.
JNull == [t |-> "null"]
JStr(s) == [t |-> "str", v |-> s]

IdNames == <<"ida", "idb", "idc", "idd", "ide">>
TitleNames == <<"t1", "t2", "t3", "t4", "t5", "t6", "t7", "t8", "t9">>

\* The text the download endpoint serves for a document.
DocText(id) == <<"markdown of", id>>
\* The text of a response whose status is not a success.
ErrorPage == <<"error page", "">>

\* struct Page
Page(id, title, lastchange, content) ==
    [id |-> id, title |-> title, lastchange_at |-> lastchange, content |-> content]

-----------------------------------------------------------------------------
(* serde: #[derive(Serialize, Deserialize)] #[serde(rename_all = "camelCase")] *)

SerializeOption(o) == IF o.some THEN JStr(o.val) ELSE JNull

\* Page written without rename_all = "camelCase".
SerializePageSnakeCase(p) ==
    [id |-> JStr(p.id),
     title |-> JStr(p.title),
     lastchange_at |-> JStr(p.lastchange_at),
     content |-> SerializeOption(p.content)]

SerializePage(p) ==
    [id |-> JStr(p.id),
     title |-> JStr(p.title),
     lastchangeAt |-> JStr(p.lastchange_at),
     content |-> SerializeOption(p.content)]

to_writer(pages) == [i \in 1..Len(pages) |-> SerializePage(pages[i])]

IsJStr(o, k) == k \in DOMAIN o /\ o[k].t = "str"

\* An Option field: a missing key and null both read as None.
DeserializeOption(o, k) ==
    IF k \in DOMAIN o /\ o[k].t = "str" THEN Some(o[k].v) ELSE None

PageReadable(o) ==
    /\ IsJStr(o, "id") /\ IsJStr(o, "title") /\ IsJStr(o, "lastchangeAt")
    /\ ("content" \in DOMAIN o => o["content"].t \in {"str", "null"})

DeserializePage(o) ==
    Page(o["id"].v, o["title"].v, o["lastchangeAt"].v, DeserializeOption(o, "content"))

\* serde_json::from_reader / Response::json for Vec<Page>
JsonReadable(arr) == \A i \in 1..Len(arr) : PageReadable(arr[i])
from_json(arr) == [i \in 1..Len(arr) |-> DeserializePage(arr[i])]

-----------------------------------------------------------------------------
(* The database file.                                                      *)

\* Nothing at the path, or something that is not a regular file (a device).
NoFile == [kind |-> "absent"]
Garbage == [kind |-> "garbage"]
EmptyFile == [kind |-> "empty"]
PartialFile == [kind |-> "partial"]
JsonFile(arr) == [kind |-> "json", val |-> arr]

\* Path::is_file
is_file(f) == f.kind # "absent"

\* serde_json::from_reader on the file's bytes
FileReadable(f) == f.kind = "json" /\ JsonReadable(f.val)

-----------------------------------------------------------------------------
(* The Session Client: reqwest behind RetryTransientMiddleware with        *)
(* ExponentialBackoff::builder().build_with_max_retries(3).                *)

\* What one attempt of a request can come to: a 2xx response, a 4xx response,
\* a 5xx (or 408/429) response, a connection error or timeout, another error.
Kinds == {"ok", "c4xx", "s5xx", "neterr", "fatalerr"}

\* The middleware's classification of an attempt's outcome.
Retryable(r) ==
    CASE r \in {"s5xx", "neterr"} -> "Transient"
      [] r \in {"c4xx", "fatalerr"} -> "Fatal"
      [] OTHER -> "Success"

\* A policy that allows one retry too many.
ShouldRetryOneMore(n_past_retries) == n_past_retries <= MaxRetries

\* The policy: retry while fewer than MaxRetries retries have been made.
ShouldRetry(n_past_retries) == n_past_retries < MaxRetries

\* The middleware's decision after an attempt that followed n retries.
RetryDecision(n_past_retries, r) ==
    Retryable(r) = "Transient" /\ ShouldRetry(n_past_retries)

\* send() gives Err for an error, Ok(response) for any status.
IsErr(r) == r \in {"neterr", "fatalerr"}
\* StatusCode::is_success
is_success(r) == r = "ok"

\* One whole request: the attempts outs[1], outs[2], ... as they would come.
RECURSIVE SendLoop(_, _)
SendLoop(outs, n) ==
    IF RetryDecision(n, outs[n + 1])
    THEN SendLoop(outs, n + 1)
    ELSE [attempts |-> n + 1, result |-> outs[n + 1]]

Send(outs) == SendLoop(outs, 0)

\* The outcomes the attempts of a request would have, one more than the
\* policy lets the middleware make.
AttemptSeqs == [1..(MaxRetries + 2) -> Kinds]

\* A download future: send().await? then text().await
FetchOutcome(r, readok) ==
    IF IsErr(r) \/ ~readok THEN "err"
    ELSE IF is_success(r) THEN "text" ELSE "errpage"

FetchOutcomes ==
    {FetchOutcome(Send(o).result, rd) : o \in AttemptSeqs, rd \in BOOLEAN}

NoResult == [ok |-> FALSE, text |-> <<"", "">>, req |-> 0]

FetchResult(outcome, url, pos) ==
    CASE outcome = "text" -> [ok |-> TRUE, text |-> DocText(url), req |-> pos]
      [] outcome = "errpage" -> [ok |-> TRUE, text |-> ErrorPage, req |-> pos]
      [] OTHER -> [ok |-> FALSE, text |-> <<"", "">>, req |-> pos]

-----------------------------------------------------------------------------
(* What the environment supplies.                                          *)

\* The team-overview response for a team of n documents.
Listing(n) ==
    [i \in 1..n |->
        [id |-> JStr(IdNames[((i - 1) % NumIds) + 1]),
         title |-> JStr(TitleNames[i]),
         lastchangeAt |-> JStr(IF i % 2 = 0 THEN "2022-02-02" ELSE "2022-01-01")]]

\* The text a listing entry carries under "content", when it carries one.
ListingText == <<"from listing", "">>

\* A team-overview response whose entries have a "content" key.  Page
\* derives Deserialize, so response.json() reads the key into Page.content.
ListingWithContent(n) ==
    [i \in 1..n |->
        [id |-> JStr(IdNames[((i - 1) % NumIds) + 1]),
         title |-> JStr(TitleNames[i]),
         lastchangeAt |-> JStr(IF i % 2 = 0 THEN "2022-02-02" ELSE "2022-01-01"),
         content |-> JStr(ListingText)]]

\* The bodies the listing endpoint answers with: listings without and with
\* content, an array whose entry lacks required fields, a body that is not
\* JSON.
ListingBodies ==
    {JsonFile(Listing(n)) : n \in 0..MaxPages}
        \cup {JsonFile(ListingWithContent(n)) : n \in 1..MaxContentPages}
        \cup {JsonFile(<<[id |-> JStr("ida")]>>), Garbage}

\* Landing pages with and without the csrf-token meta tag.
LandingBodies == {[marker |-> TRUE], [marker |-> FALSE]}

\* A database left by an earlier run: a repeated id, one page without content.
PriorPages ==
    <<Page("ida", "t1", "2021-01-01", Some(<<"old markdown of", "ida">>)),
      Page("ida", "t2", "2021-01-01", None),
      Page("idb", "t3", "2021-01-01", Some(<<"old markdown of", "idb">>))>>

PriorFiles == {NoFile, Garbage, JsonFile(to_writer(PriorPages))}

ArgsSet ==
    [team : {None, Some("team")},
     database : {"", "hackmd.json"},
     update : BOOLEAN,
     meilisearch : {None, Some("http://localhost:7700")}]

-----------------------------------------------------------------------------
(* Initial state: Args::parse() has returned.                              *)

Init ==
    /\ args \in ArgsSet
    /\ file \in PriorFiles
    /\ (args.database = "" => file = NoFile)
    /\ file0 = file
    /\ pc = "start"
    /\ err = "none"
    /\ mode = "none"
    /\ attempts = 0
    /\ resp = "ok"
    /\ net = {}
    /\ prompts = 0
    /\ fileOps = {}
    /\ listing = <<>>
    /\ page_list = <<>>
    /\ nextIdx = 0
    /\ queue = <<>>
    /\ bodies = <<>>

\* An error that is recorded while main goes on to dump the database.
FailAndGoOn(e) == pc' = "dump_create" /\ err' = e

\* `?`, bail! and ensure!: main returns the error.
Fail(e) == pc' = "failed" /\ err' = e
Panic(e) == pc' = "panic" /\ err' = e

\* println! panics when standard output cannot be written.
PrintFailed == "failed printing to stdout"

-----------------------------------------------------------------------------
(* main, up to the call of build_database.                                 *)

\* The check of the database path left out.
DatabaseGivenUnchecked == TRUE

\* !args.database.is_empty()
DatabaseGiven == args.database # ""

\* anyhow::ensure!(!args.database.is_empty(), MissingArgument { database })
CheckDatabase ==
    /\ pc = "start"
    /\ IF DatabaseGiven
       THEN pc' = "select" /\ UNCHANGED err
       ELSE Fail("MissingArgument: --database")
    /\ UNCHANGED <<args, file0, file, mode, attempts, resp, net, prompts, fileOps,
                   listing, page_list, nextIdx, queue, bodies>>

\* The branch taken on the update flag alone.
BuildSelectedUpdateOnly == args.update

\* if args.update || !Path::new(&args.database).is_file()
BuildSelected == args.update \/ ~is_file(file)

\* The branch is taken and its first statement, println!("Building ..") or
\* println!("Loading .."), is run.
SelectMode ==
    /\ pc = "select"
    /\ mode' = IF BuildSelected THEN "build" ELSE "load"
    /\ \E printed \in BOOLEAN :
        IF printed
        THEN pc' = (IF BuildSelected THEN "check_team" ELSE "load") /\ UNCHANGED err
        ELSE Panic(PrintFailed)
    /\ UNCHANGED <<args, file0, file, attempts, resp, net, prompts, fileOps,
                   listing, page_list, nextIdx, queue, bodies>>

\* The check of the team left out.
TeamGivenUnchecked == TRUE

\* args.team.is_some()
TeamGiven == args.team.some

\* anyhow::ensure!(args.team.is_some(), MissingArgument { team })
CheckTeam ==
    /\ pc = "check_team"
    /\ IF TeamGiven
       THEN pc' = "client_build" /\ UNCHANGED err
       ELSE Fail("MissingArgument: --team")
    /\ UNCHANGED <<args, file0, file, mode, attempts, resp, net, prompts, fileOps,
                   listing, page_list, nextIdx, queue, bodies>>

\* reqwest::Client::builder().cookie_store(true).tcp_keepalive(..).build()?
BuildClient ==
    /\ pc = "client_build"
    /\ \E built \in BOOLEAN :
        IF built THEN pc' = "token_send" /\ UNCHANGED err
        ELSE Fail("ClientBuildError")
    /\ UNCHANGED <<args, file0, file, mode, attempts, resp, net, prompts, fileOps,
                   listing, page_list, nextIdx, queue, bodies>>

-----------------------------------------------------------------------------
(* Requests of build_database made one after the other.                    *)

\* One attempt of the request at `at`; the middleware retries it or hands
\* the outcome to the caller, at `recv`.
Attempt(at, recv, kind) ==
    /\ pc = at
    /\ \E r \in Kinds :
        /\ resp' = r
        /\ attempts' = attempts + 1
        /\ pc' = IF RetryDecision(attempts, r) THEN at ELSE recv
    /\ net' = net \cup {kind}
    /\ UNCHANGED <<args, file0, file, err, mode, prompts, fileOps,
                   listing, page_list, nextIdx, queue, bodies>>

\* client.get(SERVER_URL).send()
TokenAttempt == Attempt("token_send", "token_recv", "token")

\* A missing token that is reported while the run goes on to the prompts.
TokenHandleReported ==
    /\ pc = "token_recv"
    /\ \E body \in LandingBodies, readok \in BOOLEAN, printed \in BOOLEAN :
        IF IsErr(resp) THEN Fail("RequestError")
        ELSE IF ~readok THEN Fail("ReadError")
        ELSE IF ~body.marker THEN pc' = "prompt_user" /\ err' = "no CSRF token found"
        ELSE IF ~printed THEN Panic(PrintFailed)
        ELSE pc' = "prompt_user" /\ UNCHANGED err
    /\ attempts' = 0
    /\ UNCHANGED <<args, file0, file, mode, resp, net, prompts, fileOps,
                   listing, page_list, nextIdx, queue, bodies>>

\* .await?; response.text().await?; the regex; ok_or_else(no CSRF token found);
\* println!("CSRF token: {}", ..)
TokenHandle ==
    /\ pc = "token_recv"
    /\ \E body \in LandingBodies, readok \in BOOLEAN, printed \in BOOLEAN :
        IF IsErr(resp) THEN Fail("RequestError")
        ELSE IF ~readok THEN Fail("ReadError")
        ELSE IF ~body.marker THEN Fail("no CSRF token found")
        ELSE IF ~printed THEN Panic(PrintFailed)
        ELSE pc' = "prompt_user" /\ UNCHANGED err
    /\ attempts' = 0
    /\ UNCHANGED <<args, file0, file, mode, resp, net, prompts, fileOps,
                   listing, page_list, nextIdx, queue, bodies>>

\* print!("HackMD user: "); flush()?; read_line().expect(..)
PromptUser ==
    /\ pc = "prompt_user"
    /\ prompts' = prompts + 1
    /\ \E outcome \in {"line", "flush error", "read error"} :
        CASE outcome = "line" -> pc' = "prompt_pass" /\ UNCHANGED err
          [] outcome = "flush error" -> Fail("PromptError")
          [] OTHER -> Panic("error: unable to read user input")
    /\ UNCHANGED <<args, file0, file, mode, attempts, resp, net, fileOps,
                   listing, page_list, nextIdx, queue, bodies>>

\* rpassword::prompt_password("HackMD password: ")?
PromptPassword ==
    /\ pc = "prompt_pass"
    /\ prompts' = prompts + 1
    /\ \E readok \in BOOLEAN :
        IF readok THEN pc' = "login_send" /\ UNCHANGED err
        ELSE Fail("PromptError")
    /\ UNCHANGED <<args, file0, file, mode, attempts, resp, net, fileOps,
                   listing, page_list, nextIdx, queue, bodies>>

\* client.post(&login_url).header(..).form(&params).send()
LoginAttempt == Attempt("login_send", "login_recv", "login")

\* The login's status left unchecked.
LoginHandleUnchecked ==
    /\ pc = "login_recv"
    /\ IF IsErr(resp) THEN Fail("RequestError")
       ELSE pc' = "listing_send" /\ UNCHANGED err
    /\ attempts' = 0
    /\ UNCHANGED <<args, file0, file, mode, resp, net, prompts, fileOps,
                   listing, page_list, nextIdx, queue, bodies>>

\* .await?; if !response.status().is_success() { bail!("Login failure") }
LoginHandle ==
    /\ pc = "login_recv"
    /\ IF IsErr(resp) THEN Fail("RequestError")
       ELSE IF ~is_success(resp) THEN Fail("Login failure")
       ELSE pc' = "listing_send" /\ UNCHANGED err
    /\ attempts' = 0
    /\ UNCHANGED <<args, file0, file, mode, resp, net, prompts, fileOps,
                   listing, page_list, nextIdx, queue, bodies>>

\* client.get(&request_url).send()
ListingAttempt == Attempt("listing_send", "listing_recv", "listing")

\* .await?.error_for_status()?; response.json().await?
ListingHandle ==
    /\ pc = "listing_recv"
    /\ \E body \in ListingBodies :
        IF IsErr(resp) THEN
            Fail("RequestError") /\ UNCHANGED <<listing, page_list>>
        ELSE IF ~is_success(resp) THEN
            Fail("StatusError") /\ UNCHANGED <<listing, page_list>>
        ELSE IF ~FileReadable(body) THEN
            Fail("DecodeError") /\ UNCHANGED <<listing, page_list>>
        ELSE /\ listing' = body.val
             /\ page_list' = from_json(body.val)
             /\ pc' = "download"
             /\ UNCHANGED err
    /\ attempts' = 0
    /\ UNCHANGED <<args, file0, file, mode, resp, net, prompts, fileOps,
                   nextIdx, queue, bodies>>

-----------------------------------------------------------------------------
(* stream::iter(&page_list).map(..).buffered(CONCURRENT_REQUESTS)          *)
(*     .collect::<Vec<_>>().await                                          *)

\* A limit that counts only the futures still running, so that any
\* completion frees a slot.
CanPullInFlight(q, n) ==
    /\ Cardinality({k \in 1..Len(q) : ~q[k].done}) < CONCURRENT_REQUESTS
    /\ n < Len(page_list)

\* A limit that admits one future too many.
CanPullOneMore(q, n) == Len(q) <= CONCURRENT_REQUESTS /\ n < Len(page_list)

\* Buffered::poll_next pulls from the stream while the queue, which holds
\* every future not yet yielded, is shorter than the limit.
CanPull(q, n) == Len(q) < CONCURRENT_REQUESTS /\ n < Len(page_list)

\* Every request made for the first page's URL.
NewSlotFirstPage(pos) ==
    [pos |-> pos, url |-> page_list[1].id, polled |-> FALSE, done |-> FALSE,
     res |-> [ok |-> FALSE, text |-> <<"", "">>, req |-> 0]]

\* The map closure: the future for the next page, with the page's own URL.
\* An async block does nothing until it is polled.
NewSlot(pos) ==
    [pos |-> pos, url |-> page_list[pos].id, polled |-> FALSE, done |-> FALSE,
     res |-> NoResult]

\* Buffered::poll_next begins by pulling from the stream while it can: the
\* closure prints "Downloading {id}" and makes the page's future, which is
\* pushed on the queue.  A println! that panics unwinds out of
\* build_database; the futures pulled before it are dropped as they are.
PullPage ==
    /\ pc = "download"
    /\ CanPull(queue, nextIdx)
    /\ \E printed \in BOOLEAN :
        IF printed
        THEN /\ nextIdx' = nextIdx + 1
             /\ queue' = Append(queue, NewSlot(nextIdx + 1))
             /\ UNCHANGED <<pc, err>>
        ELSE Panic(PrintFailed) /\ UNCHANGED <<nextIdx, queue>>
    /\ UNCHANGED <<args, file0, file, mode, attempts, resp, net, prompts, fileOps,
                   listing, page_list, bodies>>

\* The futures not yet polled, oldest first.
Unpolled(q) == {k \in 1..Len(q) : ~q[k].polled}

\* When it can pull no more, Buffered::poll_next polls the queue: a future
\* pushed since the last poll is polled for the first time, in the order
\* of the pushes, and its request is sent.
StartDownload ==
    /\ pc = "download"
    /\ ~CanPull(queue, nextIdx)
    /\ Unpolled(queue) # {}
    /\ LET k == CHOOSE k \in Unpolled(queue) : \A j \in Unpolled(queue) : k <= j
       IN queue' = [queue EXCEPT ![k].polled = TRUE]
    /\ net' = net \cup {"download"}
    /\ UNCHANGED <<args, file0, file, pc, err, mode, attempts, resp, prompts, fileOps,
                   listing, page_list, nextIdx, bodies>>

\* A failed download that fails build_database, as try_collect would.
CompleteDownloadFailFast ==
    /\ pc = "download"
    /\ \E k \in 1..Len(queue), outcome \in FetchOutcomes :
        /\ queue[k].polled /\ ~queue[k].done
        /\ queue' = [queue EXCEPT ![k].done = TRUE,
                                  ![k].res = FetchResult(outcome, queue[k].url, queue[k].pos)]
        /\ IF outcome = "err" THEN Fail("RequestError") ELSE UNCHANGED <<pc, err>>
    /\ UNCHANGED <<args, file0, file, mode, attempts, resp, net, prompts,
                   fileOps, listing, page_list, nextIdx, bodies>>

\* One of the requests in flight comes to its end, in any order.
CompleteDownload ==
    /\ pc = "download"
    /\ \E k \in 1..Len(queue), outcome \in FetchOutcomes :
        /\ queue[k].polled /\ ~queue[k].done
        /\ queue' = [queue EXCEPT ![k].done = TRUE,
                                  ![k].res = FetchResult(outcome, queue[k].url, queue[k].pos)]
    /\ UNCHANGED <<args, file0, file, pc, err, mode, attempts, resp, net, prompts,
                   fileOps, listing, page_list, nextIdx, bodies>>

\* Outputs yielded as they complete, as buffer_unordered would.
YieldableUnordered(q) == {k \in 1..Len(q) : q[k].done}

\* FuturesOrdered yields the output of the oldest future, once it is there.
Yieldable(q) == IF q # <<>> /\ Head(q).done THEN {1} ELSE {}

RemoveAt(q, k) == SubSeq(q, 1, k - 1) \o SubSeq(q, k + 1, Len(q))

\* Polling the queue follows the pulls in Buffered::poll_next.
YieldNext ==
    /\ pc = "download"
    /\ ~CanPull(queue, nextIdx)
    /\ \E k \in Yieldable(queue) :
        /\ bodies' = Append(bodies, queue[k].res)
        /\ queue' = RemoveAt(queue, k)
    /\ UNCHANGED <<args, file0, file, pc, err, mode, attempts, resp, net, prompts,
                   fileOps, listing, page_list, nextIdx>>

\* .into_iter().enumerate().for_each(|(idx, text)| if let Ok(content) = text
\*     { page_list[idx].content = Some(content) })
WriteBack(pages, texts) ==
    [idx \in 1..Len(pages) |->
        IF idx <= Len(texts) /\ texts[idx].ok
        THEN [pages[idx] EXCEPT !.content = Some(texts[idx].text)]
        ELSE pages[idx]]

\* A collect that waits for a first result.
StreamEndedNonEmpty == nextIdx = Len(page_list) /\ queue = <<>> /\ nextIdx > 0

\* The end of the stream taken for the end of the downloads.
StreamEndedEarly == nextIdx = Len(page_list)

\* The stream has ended: the results are written back and Ok(page_list) returned.
StreamEnded == nextIdx = Len(page_list) /\ queue = <<>>

Collect ==
    /\ pc = "download"
    /\ StreamEnded
    /\ page_list' = WriteBack(page_list, bodies)
    /\ pc' = "dump_create"
    /\ UNCHANGED <<args, file0, file, err, mode, attempts, resp, net, prompts,
                   fileOps, listing, nextIdx, queue, bodies>>

-----------------------------------------------------------------------------
(* main: dumping and loading the database.                                 *)

\* println!("Dumping ..");
\* File::create(args.database).expect("Unable to create file"):
\* a regular file is created or truncated; a path that holds something
\* else (a device) is opened as it is.
DumpCreate ==
    /\ pc = "dump_create"
    /\ \E outcome \in {"created", "opened", "create error", "print error"} :
        CASE outcome = "created" ->
                /\ file' = EmptyFile
                /\ fileOps' = fileOps \cup {"create"}
                /\ pc' = "dump_write"
                /\ UNCHANGED err
          [] outcome = "opened" ->
                /\ ~is_file(file)
                /\ file' = file
                /\ fileOps' = fileOps \cup {"create"}
                /\ pc' = "dump_write"
                /\ UNCHANGED err
          [] outcome = "create error" ->
                Panic("Unable to create file") /\ UNCHANGED <<file, fileOps>>
          [] OTHER ->
                Panic(PrintFailed) /\ UNCHANGED <<file, fileOps>>
    /\ UNCHANGED <<args, file0, mode, attempts, resp, net, prompts,
                   listing, page_list, nextIdx, queue, bodies>>

\* What the path holds when the bytes of `arr` were all written to f.
Written(f, arr) == IF is_file(f) THEN JsonFile(arr) ELSE f

\* What the path can hold when a write to f failed: what the earlier writes
\* left there.
LeftByFailedWrite(f) == IF is_file(f) THEN {f, PartialFile} ELSE {f}

\* serde_json::to_writer(BufWriter::new(f), &page_list)?
\* The BufWriter is moved into to_writer and never flushed by the code.  A
\* write made while serializing, when the buffer is full, returns its error
\* to to_writer; the write of what is left in the buffer is made when the
\* BufWriter is dropped, and its error is dropped with it: to_writer has
\* returned Ok and main goes on.
DumpWrite ==
    /\ pc = "dump_write"
    /\ fileOps' = fileOps \cup {"write"}
    /\ \E outcome \in {"written", "error", "lost"} :
        CASE outcome = "written" ->
                /\ file' = Written(file, to_writer(page_list))
                /\ pc' = "publish"
                /\ UNCHANGED err
          [] outcome = "error" ->
                /\ file' \in LeftByFailedWrite(file)
                /\ Fail("WriteError")
          [] OTHER ->
                /\ file' \in LeftByFailedWrite(file)
                /\ pc' = "publish"
                /\ UNCHANGED err
    /\ UNCHANGED <<args, file0, mode, attempts, resp, net, prompts,
                   listing, page_list, nextIdx, queue, bodies>>

\* File::open(args.database)?; serde_json::from_reader(BufReader::new(file))?
LoadDatabase ==
    /\ pc = "load"
    /\ \E opened \in BOOLEAN :
        IF ~opened THEN
            Fail("OpenError") /\ UNCHANGED <<fileOps, page_list>>
        ELSE IF ~FileReadable(file) THEN
            Fail("DeserializeError") /\ fileOps' = fileOps \cup {"read"}
                /\ UNCHANGED page_list
        ELSE /\ page_list' = from_json(file.val)
             /\ fileOps' = fileOps \cup {"read"}
             /\ pc' = "publish"
             /\ UNCHANGED err
    /\ UNCHANGED <<args, file0, file, mode, attempts, resp, net, prompts,
                   listing, nextIdx, queue, bodies>>

\* if args.meilisearch.is_some() { to_meilisearch(..).await? }  Ok(())
Publish ==
    /\ pc = "publish"
    /\ pc' = IF args.meilisearch.some THEN "meili_health" ELSE "done"
    /\ UNCHANGED <<args, file0, file, err, mode, attempts, resp, net, prompts, fileOps,
                   listing, page_list, nextIdx, queue, bodies>>

-----------------------------------------------------------------------------
(* to_meilisearch                                                          *)

\* A publisher that puts the old database back when a step fails.
MeiliStepRollback(at, onOk, onErr) ==
    /\ pc = at
    /\ net' = net \cup {"meilisearch"}
    /\ \E ok \in BOOLEAN :
        IF ok THEN pc' = onOk /\ UNCHANGED <<err, file>>
        ELSE IF onErr = "failed" THEN Fail("MeilisearchError") /\ file' = file0
        ELSE pc' = onErr /\ UNCHANGED <<err, file>>
    /\ UNCHANGED <<args, file0, mode, attempts, resp, prompts, fileOps,
                   listing, page_list, nextIdx, queue, bodies>>

\* One call of the Meilisearch client: it succeeds or fails.
MeiliStep(at, onOk, onErr) ==
    /\ pc = at
    /\ net' = net \cup {"meilisearch"}
    /\ \E ok \in BOOLEAN :
        IF ok THEN pc' = onOk /\ UNCHANGED err
        ELSE IF onErr = "failed" THEN Fail("MeilisearchError")
        ELSE pc' = onErr /\ UNCHANGED err
    /\ UNCHANGED <<args, file0, file, mode, attempts, resp, prompts, fileOps,
                   listing, page_list, nextIdx, queue, bodies>>

\* search_client.health().await?
MeiliHealth == MeiliStep("meili_health", "meili_get_index", "failed")
\* search_client.get_index("pages").await, matched: Ok(index) or create
MeiliGetIndex == MeiliStep("meili_get_index", "meili_add", "meili_create")
\* search_client.create_index("pages", None).await?
MeiliCreateIndex == MeiliStep("meili_create", "meili_wait", "failed")
\* task.wait_for_completion(..).await?; task.try_make_index(..)
MeiliWait == MeiliStep("meili_wait", "meili_add", "failed")
\* pages_index.add_or_replace(page_list, Some("id")).await?
MeiliAdd == MeiliStep("meili_add", "done", "failed")

-----------------------------------------------------------------------------

Next ==
    \/ CheckDatabase
    \/ SelectMode
    \/ CheckTeam
    \/ BuildClient
    \/ TokenAttempt
    \/ TokenHandle
    \/ PromptUser
    \/ PromptPassword
    \/ LoginAttempt
    \/ LoginHandle
    \/ ListingAttempt
    \/ ListingHandle
    \/ PullPage
    \/ StartDownload
    \/ CompleteDownload
    \/ YieldNext
    \/ Collect
    \/ DumpCreate
    \/ DumpWrite
    \/ LoadDatabase
    \/ Publish
    \/ MeiliHealth
    \/ MeiliGetIndex
    \/ MeiliCreateIndex
    \/ MeiliWait
    \/ MeiliAdd

\* The runtime polls a woken task, and every download that was started comes
\* to an end.
Fairness ==
    /\ WF_vars(PullPage)
    /\ WF_vars(StartDownload)
    /\ WF_vars(CompleteDownload)
    /\ WF_vars(YieldNext)
    /\ WF_vars(Collect)

Spec == Init /\ [][Next]_vars

FairSpec == Init /\ [][Next]_vars /\ Fairness

-----------------------------------------------------------------------------
(* Properties.                                                             *)

AfterBuildPcs ==
    {"dump_create", "dump_write", "publish", "meili_health", "meili_get_index",
     "meili_create", "meili_wait", "meili_add", "done"}

\* build_database has returned Ok(page_list) to main.
BuildReturned ==
    /\ mode = "build"
    /\ \/ pc \in AfterBuildPcs
       \/ err \in {"Unable to create file", "WriteError", "MeilisearchError"}

\* (id, title, lastchangeAt) of the listing response, entry by entry.
ListingMeta(arr) ==
    [i \in 1..Len(arr) |-> <<arr[i]["id"].v, arr[i]["title"].v, arr[i]["lastchangeAt"].v>>]

PageMeta(pages) ==
    [i \in 1..Len(pages) |-> <<pages[i].id, pages[i].title, pages[i].lastchange_at>>]

\* Downloads started and not yet completed.
InFlight == {k \in 1..Len(queue) : queue[k].polled /\ ~queue[k].done}

\* The number of download requests sent so far.
StartedCount == Len(bodies) + Cardinality({k \in 1..Len(queue) : queue[k].polled})

\* C1: the collection build_database returns has one entry per listing entry,
\* in the listing's order, whatever the order the downloads completed in, and
\* the result stored at position i is the result of the request made for
\* position i; an entry whose request gave no result is as the listing
\* gave it.
C1_ListingOrderKept ==
    /\ mode = "build" => PageMeta(page_list) = ListingMeta(listing)
    /\ \A i \in 1..Len(bodies) : bodies[i].req = i
    /\ BuildReturned =>
        /\ Len(page_list) = Len(listing)
        /\ Len(bodies) = Len(listing)
        /\ \A i \in 1..Len(page_list) :
            page_list[i].content =
                IF bodies[i].ok THEN Some(bodies[i].text)
                ELSE from_json(listing)[i].content

\* A returned collection longer than the limit, with a failed download
\* between two successful ones.
C1_Witness ==
    /\ BuildReturned
    /\ Len(page_list) > CONCURRENT_REQUESTS
    /\ bodies[1].ok /\ ~bodies[2].ok /\ bodies[3].ok

\* The download at position i did not deliver the document: the request or
\* the read of its body ended in an error, or the response was not a success.
DownloadFailed(i) == ~bodies[i].ok \/ bodies[i].text = ErrorPage

\* C2: when build_database has returned, the entry at position i has content
\* exactly if the download for position i did not fail.
C2_ContentIffDownloaded ==
    BuildReturned =>
        \A i \in 1..Len(page_list) :
            page_list[i].content.some <=> ~DownloadFailed(i)

\* C3: never more than CONCURRENT_REQUESTS downloads are started and not
\* yet completed.
C3_AtMostFiveInFlight ==
    /\ Cardinality(InFlight) <= CONCURRENT_REQUESTS
    /\ Len(queue) <= CONCURRENT_REQUESTS
    /\ nextIdx = Len(bodies) + Len(queue)

\* The limit is reached while pages of the listing still wait.
C3_Witness ==
    /\ pc = "download"
    /\ Cardinality(InFlight) = CONCURRENT_REQUESTS
    /\ nextIdx < Len(page_list)

\* The moments at which a request is first sent, a download started, the
\* database file touched.
FirstLogin == "login" \notin net /\ "login" \in net'
FirstListing == "listing" \notin net /\ "listing" \in net'
DownloadStarts == StartedCount' > StartedCount
FileTouched == file' # file \/ fileOps' # fileOps

\* C4: in build mode the login is first sent when the token GET has come back,
\* the listing is first requested when the login has come back a success, a
\* download is started only when the listing has been read, and the database
\* file is created and written only when every download has completed.
C4_StepsInOrder ==
    /\ [][FirstLogin =>
            /\ pc = "login_send" /\ attempts = 0
            /\ "token" \in net /\ ~IsErr(resp)]_vars
    /\ [][FirstListing =>
            /\ pc = "listing_send" /\ attempts = 0
            /\ "login" \in net /\ is_success(resp)]_vars
    /\ [][DownloadStarts =>
            /\ pc = "download" /\ attempts = 0
            /\ "listing" \in net /\ is_success(resp)
            /\ PageMeta(page_list) = ListingMeta(listing)]_vars
    /\ [][(mode = "build" /\ FileTouched) =>
            /\ nextIdx = Len(listing)
            /\ Len(bodies) = Len(listing)
            /\ InFlight = {}]_vars

\* The database has been created after token, login, listing and downloads.
C4_Witness ==
    /\ mode = "build"
    /\ {"token", "login", "listing", "download"} \subseteq net
    /\ "create" \in fileOps
    /\ Len(bodies) > CONCURRENT_REQUESTS

\* C5: with an empty database path the run fails with MissingArgument for
\* --database before any request, prompt or file operation, whatever the
\* other arguments are.
C5_EmptyDatabasePath ==
    args.database = "" =>
        /\ pc \in {"start", "failed"}
        /\ pc = "failed" => err = "MissingArgument: --database"
        /\ mode = "none"
        /\ net = {} /\ prompts = 0 /\ fileOps = {} /\ file = file0

\* The run has failed on the empty path, without the update flag.
C5_Witness ==
    /\ args.database = "" /\ ~args.update /\ args.team.some
    /\ pc = "failed"

\* C6: build mode without a team fails with MissingArgument for --team, with
\* no prompt, no request and the database file untouched.  The one statement
\* before the check is the println! of the mode line: a run whose standard
\* output cannot be written panics there, with nothing prompted, requested or
\* written either.
C6_BuildWithoutTeam ==
    (mode = "build" /\ ~args.team.some) =>
        /\ pc \in {"check_team", "failed", "panic"}
        /\ pc = "failed" => err = "MissingArgument: --team"
        /\ pc = "panic" => err = PrintFailed
        /\ pc = "check_team" => err = "none"
        /\ net = {} /\ prompts = 0 /\ fileOps = {} /\ file = file0

\* Build mode chosen by the update flag over an existing database, no team.
C6_Witness ==
    /\ mode = "build" /\ ~args.team.some /\ args.update /\ is_file(file0)
    /\ pc = "failed"

SendPcs == {"token_send", "login_send", "listing_send"}
RecvPcs == {"token_recv", "login_recv", "listing_recv"}

\* What send() returns for every run of attempts: the third attempt's success
\* after two transient failures, the fourth attempt's outcome after three.
SendFacts ==
    \A o \in AttemptSeqs :
        /\ Send(o).attempts <= MaxRetries + 1
        /\ (Retryable(o[1]) = "Transient" /\ Retryable(o[2]) = "Transient" /\ o[3] = "ok")
            => Send(o) = [attempts |-> 3, result |-> "ok"]
        /\ (\A k \in 1..(MaxRetries + 1) : Retryable(o[k]) = "Transient")
            => Send(o) = [attempts |-> MaxRetries + 1, result |-> o[MaxRetries + 1]]

\* C7: a request is attempted again only after a transient failure and at
\* most MaxRetries times; a success is handed to the caller at once and
\* without an error; a transient failure is handed to the caller only as the
\* outcome of attempt MaxRetries + 1.
C7_RetryBudget ==
    /\ attempts <= MaxRetries + 1
    /\ (pc \in SendPcs /\ attempts > 0) =>
        Retryable(resp) = "Transient" /\ attempts <= MaxRetries
    /\ pc \in RecvPcs =>
        /\ attempts >= 1
        /\ err = "none"
        /\ Retryable(resp) = "Transient" => attempts = MaxRetries + 1
    /\ SendFacts

\* The caller is handed the failure of the fourth attempt.
C7_Witness ==
    /\ pc = "listing_recv"
    /\ attempts = MaxRetries + 1
    /\ Retryable(resp) = "Transient"

NoteServiceKinds == {"token", "login", "listing", "download"}

\* main has the collection it goes on to publish.
HasCollection(m) ==
    /\ mode = m
    /\ pc \in (AfterBuildPcs \ {"dump_create", "dump_write"}) \/ err = "MeilisearchError"

\* The bytes to_writer produced have reached the database file.
Persisted == "write" \in fileOps /\ file.kind = "json"

\* C8: the database a build-mode run has persisted reads back, with
\* from_reader, as the collection that was written; a load-mode run reads
\* the collection it was written from, sends nothing to the note service and
\* leaves the file as it was.
C8_RoundTrip ==
    /\ (HasCollection("build") /\ Persisted) =>
        /\ FileReadable(file)
        /\ from_json(file.val) = page_list
    /\ mode = "load" =>
        /\ net \cap NoteServiceKinds = {}
        /\ file = file0
    /\ (HasCollection("load") /\ file0 = JsonFile(to_writer(PriorPages))) =>
        page_list = PriorPages

\* A written collection with a repeated id and an entry without content.
C8_Witness ==
    /\ HasCollection("build")
    /\ Persisted
    /\ Len(page_list) > NumIds
    /\ ~page_list[1].content.some
    /\ page_list[NumIds + 1].content.some

MandatoryErrors ==
    {"RequestError", "ReadError", "no CSRF token found", "Login failure",
     "StatusError", "DecodeError"}

\* C9: when the token fetch, the token extraction, the login, the listing
\* request or its deserialization fails, the run ends there: no download has
\* been or is started, and the database file is not created, written or
\* otherwise changed.
C9_MandatoryFailureAborts ==
    err \in MandatoryErrors =>
        /\ pc = "failed"
        /\ nextIdx = 0 /\ queue = <<>> /\ "download" \notin net
        /\ fileOps = {}
        /\ file = file0

\* The login is refused on an update run over an existing database.
C9_Witness ==
    /\ err = "Login failure"
    /\ args.update
    /\ file0 = JsonFile(to_writer(PriorPages))

MeiliPcs ==
    {"meili_health", "meili_get_index", "meili_create", "meili_wait", "meili_add"}

\* C10: once the database has been persisted, it holds the whole collection
\* of this run while and after the publisher runs; no step of the publisher
\* changes the file; a failed publisher fails the run.
C10_PublisherKeepsSnapshot ==
    /\ []((mode = "build" /\ (pc \in MeiliPcs \/ err = "MeilisearchError")) =>
            /\ Persisted => file = JsonFile(to_writer(page_list))
            /\ PageMeta(page_list) = ListingMeta(listing)
            /\ err = "MeilisearchError" => pc = "failed")
    /\ [][(pc \in MeiliPcs) => (file' = file /\ page_list' = page_list)]_vars

\* The publisher has failed after a collection was persisted.
C10_Witness ==
    /\ mode = "build"
    /\ err = "MeilisearchError"
    /\ Len(page_list) > 0
    /\ Persisted
    /\ file0 = JsonFile(to_writer(PriorPages))

\* C11: a run that passes the check of the database path takes exactly one
\* branch, and keeps it: build if the update flag is set or the file is
\* absent, load otherwise.  A load run sends nothing to the note service,
\* shows no prompt and does not write the file.
C11_OneModePerRun ==
    /\ [](/\ mode \in {"none", "build", "load"}
          /\ mode = "none" <=> (pc \in {"start", "select"} \/ ~DatabaseGiven)
          /\ mode = "build" => (args.update \/ ~is_file(file0))
          /\ mode = "load" => ~(args.update \/ ~is_file(file0))
          /\ mode = "load" =>
                /\ net \cap NoteServiceKinds = {}
                /\ prompts = 0
                /\ fileOps \subseteq {"read"}
                /\ file = file0)
    /\ [][mode # "none" => mode' = mode]_vars

\* A load run has ended.
C11_Witness ==
    /\ mode = "load"
    /\ pc = "done"
    /\ "read" \in fileOps

\* C12: content is absent until the page's download has completed with
\* success: a stored content is the text of a successful download of that
\* page, and a download that failed stores nothing.
C12_ContentOnlyFromSuccess ==
    mode = "build" =>
        \A i \in 1..Len(page_list) :
            page_list[i].content.some =>
                /\ BuildReturned
                /\ ~DownloadFailed(i)
                /\ page_list[i].content.val = DocText(page_list[i].id)

\* C13 as stated: a login answered with a status that is not a success is
\* sent once only, and fails the run.
C13_LoginSentOnce ==
    /\ (pc = "login_send" /\ attempts > 0) => (IsErr(resp) \/ is_success(resp))
    /\ (pc = "login_recv" /\ ~IsErr(resp) /\ ~is_success(resp)) => attempts = 1

\* C13 amended: a login whose final response is not a success fails the run
\* with "Login failure", and no listing request, download or write of the
\* database follows; the login is sent again only by the middleware, after
\* a transient outcome (a 5xx, a connection error), MaxRetries + 1 times at
\* most, and never after a 4xx.
C13_LoginFailureIsFatal ==
    /\ [](/\ err = "Login failure" =>
                /\ pc = "failed"
                /\ ~IsErr(resp) /\ ~is_success(resp)
                /\ "listing" \notin net /\ "download" \notin net
                /\ nextIdx = 0 /\ fileOps = {} /\ file = file0
          /\ (pc = "login_send" /\ attempts > 0) =>
                Retryable(resp) = "Transient" /\ attempts <= MaxRetries
          /\ pc = "login_recv" =>
                /\ attempts <= MaxRetries + 1
                /\ resp = "s5xx" => attempts = MaxRetries + 1)
    /\ [][(pc = "login_recv" /\ ~IsErr(resp) /\ ~is_success(resp)) =>
            (pc' = "failed" /\ err' = "Login failure")]_vars

\* The login was refused with a 4xx.
C13_Witness ==
    /\ err = "Login failure"
    /\ resp = "c4xx"

\* C14: the database a build run has written is the collection made from
\* this run's listing and this run's downloads, whatever the file held
\* before, and an entry whose download failed is written without content.
C14_SnapshotOfThisRunOnly ==
    HasCollection("build") =>
        /\ file = JsonFile(to_writer(WriteBack(from_json(listing), bodies)))
        /\ \A i \in 1..Len(bodies) :
            DownloadFailed(i) => file.val[i]["content"] = JNull

\* C15: when the landing page lacks the token, the run fails with "no CSRF
\* token found" having sent nothing but the landing-page request and shown
\* no prompt; nothing is sent or shown by the step that finds the token
\* missing.
C15_TokenNotFoundIsFatal ==
    /\ [](err = "no CSRF token found" =>
            /\ pc = "failed"
            /\ net = {"token"}
            /\ prompts = 0
            /\ nextIdx = 0 /\ fileOps = {})
    /\ [][pc = "token_recv" =>
            /\ pc' \in {"failed", "prompt_user", "panic"}
            /\ net' = net /\ prompts' = prompts]_vars

\* The token was missing from a landing page served with a success status.
C15_Witness ==
    /\ err = "no CSRF token found"
    /\ resp = "ok"

\* C16 as stated: whenever fewer than CONCURRENT_REQUESTS downloads are in
\* flight and entries wait, the stream can go on towards the next download
\* with no other download completing first.
C16_SlotFreesOnCompletion ==
    (/\ pc = "download"
     /\ nextIdx < Len(page_list)
     /\ Cardinality(InFlight) < CONCURRENT_REQUESTS) =>
        (ENABLED PullPage \/ ENABLED StartDownload \/ ENABLED YieldNext)

\* C16 amended: a page is taken up exactly while fewer than
\* CONCURRENT_REQUESTS are taken up and not yet yielded; the request of a
\* page taken up is sent once no more can be taken up, whatever the state of
\* the other requests; a result is yielded, freeing its slot, exactly when
\* the oldest of them has completed (and no page can be taken up first).
C16_SlotFreesOnYield ==
    pc = "download" =>
        /\ Cardinality(InFlight) <= Len(queue)
        /\ Len(queue) >= CONCURRENT_REQUESTS => ~ENABLED PullPage
        /\ (Len(queue) < CONCURRENT_REQUESTS /\ nextIdx < Len(page_list))
            => ENABLED PullPage
        /\ ENABLED StartDownload <=>
                (~ENABLED PullPage /\ \E k \in 1..Len(queue) : ~queue[k].polled)
        /\ ENABLED YieldNext <=>
                (~ENABLED PullPage /\ queue # <<>> /\ Head(queue).done)

\* A younger download has completed, the oldest has not, and a page waits.
C16_Witness ==
    /\ pc = "download"
    /\ Len(queue) = CONCURRENT_REQUESTS
    /\ queue[1].polled /\ ~queue[1].done /\ queue[2].done
    /\ nextIdx < Len(page_list)

\* C17: a request that fails with a 4xx or a non-transient error is attempted
\* once and its failure ends the step that made it: the run does not go on
\* from the token, login or listing request, and a download leaves its page
\* without content.
C17_FatalNotRetriedAndReported ==
    /\ (pc \in RecvPcs /\ Retryable(resp) = "Fatal") => attempts = 1
    /\ pc \in {"prompt_user", "prompt_pass", "listing_send", "download"} =>
        Retryable(resp) # "Fatal"
    /\ BuildReturned =>
        \A i \in 1..Len(page_list) :
            bodies[i].text = ErrorPage => ~page_list[i].content.some

\* The listing has been read, or build_database has returned.
ListingRead == mode = "build" /\ (pc = "download" \/ BuildReturned)

\* C18: after an empty listing no download is started, build_database
\* returns without an error, and the database persisted is the empty
\* collection.
C18_EmptyListing ==
    (ListingRead /\ listing = <<>>) =>
        /\ page_list = <<>>
        /\ nextIdx = 0 /\ queue = <<>> /\ bodies = <<>>
        /\ "download" \notin net
        /\ pc = "download" =>
            (ENABLED Collect /\ ~ENABLED PullPage /\ ~ENABLED StartDownload)
        /\ err \notin MandatoryErrors
        /\ (HasCollection("build") /\ Persisted) => file = JsonFile(<<>>)

\* A run over an empty listing has ended with the empty database written.
C18_Witness ==
    /\ mode = "build"
    /\ "listing" \in net
    /\ listing = <<>>
    /\ pc = "done"
    /\ file = JsonFile(<<>>)

\* C19: once the listing is read, and with every started download coming to
\* an end, build_database returns to main, which goes on to create the
\* database; until then no download's failure ends or fails the run.  What
\* ends the download phase otherwise is a "Downloading" line that cannot be
\* printed, and no result of a download.
C19_DownloadsFinish ==
    /\ (pc = "download") ~>
            \/ pc = "dump_create" /\ Len(bodies) = Len(listing)
            \/ err = PrintFailed
    /\ [][pc = "download" =>
            \/ pc' \in {"download", "dump_create"} /\ err' = "none"
            \/ /\ pc' = "panic" /\ err' = PrintFailed
               /\ queue' = queue /\ bodies' = bodies /\ CanPull(queue, nextIdx)]_vars

\* build_database has returned after every download failed.
C19_Witness ==
    /\ pc = "dump_create"
    /\ Len(bodies) > CONCURRENT_REQUESTS
    /\ \A i \in 1..Len(bodies) : ~bodies[i].ok

\* Positions of the pages taken up so far, oldest first, and of those among
\* them whose request has been sent.
PulledPositions ==
    [i \in 1..Len(bodies) |-> bodies[i].req] \o [k \in 1..Len(queue) |-> queue[k].pos]
StartedPositions == SubSeq(PulledPositions, 1, StartedCount)

\* C20: the requests started are those for positions 1, 2, ... of the listing
\* in that order, each for the id of its own entry, one per entry by the
\* time build_database returns.
C20_OneRequestPerEntryInOrder ==
    /\ [](/\ PulledPositions = [i \in 1..nextIdx |-> i]
          /\ StartedPositions = [i \in 1..StartedCount |-> i]
          /\ \A k \in 1..Len(queue) :
                queue[k].polled => \A j \in 1..k : queue[j].polled
          /\ StartedCount <= nextIdx /\ nextIdx <= Len(listing)
          /\ \A k \in 1..Len(queue) :
                queue[k].url = listing[queue[k].pos]["id"].v
          /\ BuildReturned => StartedCount = Len(listing))
    /\ [][DownloadStarts =>
            /\ StartedCount' = StartedCount + 1
            /\ Len(queue') = Len(queue) /\ bodies' = bodies
            /\ LET k == StartedCount' - Len(bodies)
               IN /\ ~queue[k].polled /\ queue'[k].polled
                  /\ queue'[k].pos = StartedCount'
                  /\ queue'[k].url = listing[StartedCount']["id"].v
                  /\ \A j \in 1..Len(queue) : j # k => queue'[j] = queue[j]]_vars

\* Every entry of a listing that repeats ids has had its request.
C20_Witness ==
    /\ pc = "dump_create"
    /\ Len(listing) > NumIds
    /\ StartedCount = Len(listing)

====
